---------------------------- MODULE Spec2Model ----------------------------
(***************************************************************************)
(* A model of vibe-studio: the prompt template engine (prompts.py), the    *)
(* startup code that builds one PromptBuilder per YAML file (main.py) and  *)
(* the in-memory job runner (pipeline.py, replicate_client.py).            *)
(*                                                                         *)
(* Text.  A Python str is a sequence of atoms.  An atom is a one-character *)
(* TLA+ string for every character the code looks at (whitespace, the      *)
(* punctuation , . ; : and { } @ [ ] ' -) and a whole TLA+ string for a    *)
(* maximal run of word characters [A-Za-z0-9_]; "lighting" is one atom,    *)
(* "@mixin.a" is << "@", "mixin", ".", "a" >>.  Every operation of the     *)
(* code on text is written out on that representation.                     *)
(*                                                                         *)
(* Values.  A YAML / JSON value is a tagged record:                        *)
(*   [t |-> "none"]   [t |-> "str", s |-> text]   [t |-> "int", n |-> i]   *)
(*   [t |-> "float", n |-> i, f |-> d]  (i.d)     [t |-> "bool", b |-> b]  *)
(*   [t |-> "list", xs |-> sequence of values]                             *)
(*   [t |-> "map", m |-> function from keys to values]                     *)
(* A dict keyed by placeholder names is a TLA+ function on strings.        *)
(***************************************************************************)
EXTENDS Integers, Sequences, FiniteSets, TLC

---------------------------------------------------------------------------
(* Text primitives                                                         *)

WS == {" ", "\t", "\n"}

NonWord == WS \cup {",", ".", ";", ":", "{", "}", "@", "[", "]", "'", "-"}

IsWord(a) == a \notin NonWord

TrailSet == {",", ".", ";", ":"} \cup WS

RECURSIVE LStripSet(_, _)
LStripSet(s, set) ==
    IF s # << >> /\ Head(s) \in set THEN LStripSet(Tail(s), set) ELSE s

RECURSIVE RStripSet(_, _)
RStripSet(s, set) ==
    IF s # << >> /\ s[Len(s)] \in set
    THEN RStripSet(SubSeq(s, 1, Len(s) - 1), set)
    ELSE s

\* str.rstrip()
RStrip(s) == RStripSet(s, WS)

\* str.strip()
Strip(s) == LStripSet(RStripSet(s, WS), WS)

\* str.startswith(p)
StartsWith(s, p) == Len(s) >= Len(p) /\ SubSeq(s, 1, Len(p)) = p

RECURSIVE SplitOn(_, _)
\* str.split(sep) for a one-atom separator: the pieces between separators,
\* empty pieces kept ("" gives [""]).
SplitOn(s, sep) ==
    IF \E i \in 1..Len(s) : s[i] = sep
    THEN LET i == CHOOSE i \in 1..Len(s) :
                      s[i] = sep /\ \A j \in 1..(i - 1) : s[j] # sep
         IN  <<SubSeq(s, 1, i - 1)>> \o SplitOn(SubSeq(s, i + 1, Len(s)), sep)
    ELSE <<s>>

RECURSIVE SplitWS(_)
\* str.split(): the maximal runs of non-whitespace, none of them empty.
SplitWS(s) ==
    LET t == LStripSet(s, WS)
    IN  IF t = << >> THEN << >>
        ELSE IF \E i \in 1..Len(t) : t[i] \in WS
        THEN LET i == CHOOSE i \in 1..Len(t) :
                          t[i] \in WS /\ \A j \in 1..(i - 1) : t[j] \notin WS
             IN  <<SubSeq(t, 1, i - 1)>> \o SplitWS(SubSeq(t, i, Len(t)))
        ELSE <<t>>

RECURSIVE Join(_, _)
\* sep.join(parts)
Join(sep, parts) ==
    IF parts = << >> THEN << >>
    ELSE IF Len(parts) = 1 THEN parts[1]
    ELSE parts[1] \o sep \o Join(sep, Tail(parts))

RECURSIVE splitlines(_)
\* str.splitlines() with "\n" the only line boundary: no empty last line
\* after a final line break, and no line at all for the empty text.
splitlines(s) ==
    IF s = << >> THEN << >>
    ELSE IF \E i \in 1..Len(s) : s[i] = "\n"
    THEN LET i == CHOOSE i \in 1..Len(s) :
                      s[i] = "\n" /\ \A j \in 1..(i - 1) : s[j] # "\n"
         IN  <<SubSeq(s, 1, i - 1)>> \o splitlines(SubSeq(s, i + 1, Len(s)))
    ELSE <<s>>

RECURSIVE ReplaceAll(_, _, _)
\* str.replace(old, new): every non-overlapping occurrence, left to right.
ReplaceAll(s, old, new) ==
    IF s = << >> THEN << >>
    ELSE IF StartsWith(s, old)
    THEN new \o ReplaceAll(SubSeq(s, Len(old) + 1, Len(s)), old, new)
    ELSE <<Head(s)>> \o ReplaceAll(Tail(s), old, new)

RECURSIVE ReplaceFirst(_, _, _)
\* str.replace(old, new, 1): the first occurrence only.
ReplaceFirst(s, old, new) ==
    IF s = << >> THEN << >>
    ELSE IF StartsWith(s, old)
    THEN new \o SubSeq(s, Len(old) + 1, Len(s))
    ELSE <<Head(s)>> \o ReplaceFirst(Tail(s), old, new)

---------------------------------------------------------------------------
(* Values and their stringification                                        *)

VNone == [t |-> "none"]
VStr(s) == [t |-> "str", s |-> s]
VInt(n) == [t |-> "int", n |-> n]
VFloat(n, f) == [t |-> "float", n |-> n, f |-> f]
VBool(b) == [t |-> "bool", b |-> b]
VList(xs) == [t |-> "list", xs |-> xs]
VMap(m) == [t |-> "map", m |-> m]

\* A result of a call: a returned value, or a raised exception.
Ok(v) == [ok |-> TRUE, v |-> v]
Raise(exc, arg) == [ok |-> FALSE, exc |-> exc, arg |-> arg]

\* dict.get(k, default) and dict.update(e) on dicts keyed by names
Get(d, k, default) == IF k \in DOMAIN d THEN d[k] ELSE default
Update(d, e) ==
    [k \in DOMAIN d \cup DOMAIN e |-> IF k \in DOMAIN e THEN e[k] ELSE d[k]]

RECURSIVE KeySeq(_)
\* The keys of a map in one fixed order (a map the model stringifies has at
\* most one key, so that the order of a dict's items plays no part).
KeySeq(keys) ==
    IF keys = {} THEN << >>
    ELSE LET k == CHOOSE k \in keys : TRUE IN <<k>> \o KeySeq(keys \ {k})

RECURSIVE PyStr(_)
RECURSIVE PyRepr(_)
\* str(v)
PyStr(v) ==
    CASE v.t = "none"  -> <<"None">>
      [] v.t = "str"   -> v.s
      [] v.t = "int"   -> IF v.n < 0 THEN <<"-", ToString(-v.n)>>
                                     ELSE <<ToString(v.n)>>
      [] v.t = "float" -> <<ToString(v.n), ".", ToString(v.f)>>
      [] v.t = "bool"  -> IF v.b THEN <<"True">> ELSE <<"False">>
      [] v.t = "list"  ->
            <<"[">> \o Join(<<",", " ">>,
                            [i \in 1..Len(v.xs) |-> PyRepr(v.xs[i])]) \o <<"]">>
      [] v.t = "map"   ->
            LET ks == KeySeq(DOMAIN v.m)
            IN  <<"{">> \o Join(<<",", " ">>,
                    [i \in 1..Len(ks) |->
                        <<"'">> \o ks[i] \o <<"'", ":", " ">> \o PyRepr(v.m[ks[i]])])
                \o <<"}">>

\* repr(v): a str in quotes, anything else as str(v)
PyRepr(v) == IF v.t = "str" THEN <<"'">> \o v.s \o <<"'">> ELSE PyStr(v)

RECURSIVE SelectSeq2(_, _)
SelectSeq2(xs, keep) ==
    IF xs = << >> THEN << >>
    ELSE (IF keep[1] THEN <<Head(xs)>> ELSE << >>)
         \o SelectSeq2(Tail(xs), Tail(keep))

\* ", ".join([str(x) for x in xs if str(x).strip()])
JoinNonBlank(xs) ==
    LET strs == [i \in 1..Len(xs) |-> PyStr(xs[i])]
        kept == SelectSeq2(strs, [i \in 1..Len(xs) |-> Strip(strs[i]) # << >>])
    IN  Join(<<",", " ">>, kept)

---------------------------------------------------------------------------
(* prompts.py: the value resolver                                          *)

PLACEHOLDERS ==
    << "subject_or_subjects", "location_description", "pose",
       "facial_expression", "clothing", "accessories", "hairstyle",
       "background_elements", "lighting", "camera_angle_and_composition" >>

CLEAR == <<"@", "clear">>
MIXIN_PREFIX == <<"@", "mixin", ".">>

RECURSIVE WalkMixin(_, _, _)
\* The loop of _lookup_mixin: each part must be a key of a dict node.
WalkMixin(node, parts, path) ==
    IF parts = << >> THEN Ok(node)
    ELSE IF node.t # "map" \/ Head(parts) \notin DOMAIN node.m
    THEN Raise("PromptConfigError", <<"Mixin not found", path>>)
    ELSE WalkMixin(node.m[Head(parts)], Tail(parts), path)

\* A lookup that falls back to the empty string where the path is missing.
lookup_mixin_fallback(mixins, path) ==
    LET r == WalkMixin(mixins, SplitOn(path, "."), path)
    IN  IF ~r.ok THEN Ok(<< >>)
        ELSE IF r.v.t = "list" THEN Ok(JoinNonBlank(r.v.xs))
        ELSE Ok(PyStr(r.v))

lookup_mixin(mixins, path) ==
    LET r == WalkMixin(mixins, SplitOn(path, "."), path)
    IN  IF ~r.ok THEN r
        ELSE IF r.v.t = "list" THEN Ok(JoinNonBlank(r.v.xs))
        ELSE Ok(PyStr(r.v))

\* A resolver without the "@clear" case.
resolve_value_noclear(mixins, val) ==
    IF val.t = "none" THEN Ok(<< >>)
    ELSE IF val.t = "list" THEN Ok(JoinNonBlank(val.xs))
    ELSE IF val.t \in {"int", "float", "bool"} THEN Ok(PyStr(val))
    ELSE LET s == Strip(PyStr(val))
         IN  IF s = << >> THEN Ok(<< >>)
             ELSE IF StartsWith(s, MIXIN_PREFIX)
             THEN LET r == lookup_mixin(mixins, ReplaceFirst(s, MIXIN_PREFIX, << >>))
                  IN  IF r.ok THEN Ok(Strip(r.v)) ELSE r
             ELSE Ok(s)

resolve_value(mixins, val) ==
    IF val.t = "none" THEN Ok(<< >>)
    ELSE IF val.t = "list" THEN Ok(JoinNonBlank(val.xs))
    ELSE IF val.t \in {"int", "float", "bool"} THEN Ok(PyStr(val))
    ELSE LET s == Strip(PyStr(val))
         IN  IF s = << >> THEN Ok(<< >>)
             ELSE IF s = CLEAR THEN Ok(<< >>)
             ELSE IF StartsWith(s, MIXIN_PREFIX)
             THEN LET r == lookup_mixin(mixins, ReplaceFirst(s, MIXIN_PREFIX, << >>))
                  IN  IF r.ok THEN Ok(Strip(r.v)) ELSE r
             ELSE Ok(s)

strip_trailing_punct(s) == RStripSet(Strip(s), TrailSet)

normalize_value(s) == strip_trailing_punct(Join(<<" ">>, SplitWS(s)))

---------------------------------------------------------------------------
(* prompts.py: the template renderer                                       *)

RECURSIVE FindAll(_)
\* re.findall(r"\{([a-zA-Z0-9_]+)\}", line): the names between braces, in
\* order, repeats kept.
FindAll(line) ==
    IF Len(line) < 3 THEN << >>
    ELSE IF line[1] = "{" /\ IsWord(line[2]) /\ line[3] = "}"
    THEN <<line[2]>> \o FindAll(SubSeq(line, 4, Len(line)))
    ELSE FindAll(Tail(line))

RECURSIVE DictKeys(_)
\* The keys of {name: ... for name in names}: each name once, in the order
\* of its first occurrence.
DictKeys(names) ==
    IF names = << >> THEN << >>
    ELSE LET init == SubSeq(names, 1, Len(names) - 1)
             last == names[Len(names)]
         IN  IF \E i \in 1..Len(init) : init[i] = last
             THEN DictKeys(init)
             ELSE DictKeys(init) \o <<last>>

RECURSIVE SubstituteAll(_, _, _)
\* for name, val in vals.items(): line = line.replace("{name}", val)
SubstituteAll(line, names, vals) ==
    IF names = << >> THEN line
    ELSE SubstituteAll(
             ReplaceAll(line, <<"{", Head(names), "}">>, vals[Head(names)]),
             Tail(names), vals)

RECURSIVE CleanSpaces(_)
\* re.sub(r"\s+([,\.])", r"\1", line)
CleanSpaces(s) ==
    IF s = << >> THEN << >>
    ELSE LET r == LStripSet(s, WS)
         IN  IF Head(s) \in WS /\ r # << >> /\ Head(r) \in {",", "."}
             THEN CleanSpaces(r)
             ELSE <<Head(s)>> \o CleanSpaces(Tail(s))

RECURSIVE CollapsePunct(_)
\* re.sub(r"([,\.])\1+", r"\1", line)
CollapsePunct(s) ==
    IF s = << >> THEN << >>
    ELSE IF Len(s) >= 2 /\ s[1] \in {",", "."} /\ s[2] = s[1]
    THEN CollapsePunct(Tail(s))
    ELSE <<Head(s)>> \o CollapsePunct(Tail(s))

\* An assembly that leaves the runs of line breaks as they are.
CollapseBreaksNone(s) == s

RECURSIVE CollapseBreaks(_)
\* re.sub(r"\n{3,}", "\n\n", text)
CollapseBreaks(s) ==
    IF s = << >> THEN << >>
    ELSE IF Len(s) >= 3 /\ s[1] = "\n" /\ s[2] = "\n" /\ s[3] = "\n"
    THEN CollapseBreaks(Tail(s))
    ELSE <<Head(s)>> \o CollapseBreaks(Tail(s))

\* A drop rule that wants every referenced placeholder empty.
LineDroppedAll(line, context) ==
    \A i \in 1..Len(FindAll(line)) :
        Strip(Get(context, FindAll(line)[i], << >>)) = << >>

\* Whether the line (right-trimmed, not blank, with tokens) is dropped:
\* any(v == "" for v in vals.values())
LineDropped(line, context) ==
    \E i \in 1..Len(FindAll(line)) :
        Strip(Get(context, FindAll(line)[i], << >>)) = << >>

\* One pass of the loop of _render for a raw line: << >> when nothing is
\* appended to lines_out, else the one line appended.
render_line(raw_line, context) ==
    LET line == RStrip(raw_line)
        ph_names == FindAll(line)
        names == DictKeys(ph_names)
        vals == [n \in {names[i] : i \in 1..Len(names)} |->
                    Strip(Get(context, n, << >>))]
    IN  IF Strip(line) = << >> THEN << << >> >>
        ELSE IF ph_names = << >> THEN <<line>>
        ELSE IF LineDropped(line, context) THEN << >>
        ELSE <<CollapsePunct(CleanSpaces(SubstituteAll(line, names, vals)))>>

RECURSIVE LinesOut(_, _, _)
\* lines_out, each line with the number of the template line it came from.
LinesOut(lines, i, context) ==
    IF i > Len(lines) THEN << >>
    ELSE LET r == render_line(lines[i], context)
         IN  (IF r = << >> THEN << >> ELSE << [src |-> i, text |-> r[1]] >>)
             \o LinesOut(lines, i + 1, context)

lines_out(template, context) == LinesOut(splitlines(template), 1, context)

\* The final assembly of _render.
assemble(out) ==
    CollapseBreaks(Strip(Join(<<"\n">>, [i \in 1..Len(out) |-> out[i].text])))

render(template, context) == assemble(lines_out(template, context))

---------------------------------------------------------------------------
(* prompts.py: the context composer                                        *)

RECURSIVE ComposeLoop(_, _, _, _)
\* for key in PLACEHOLDERS: out[key] = normalize(resolve(merged.get(key, "")))
ComposeLoop(mixins, merged, i, out) ==
    IF i > Len(PLACEHOLDERS) THEN Ok(out)
    ELSE LET key == PLACEHOLDERS[i]
             r == resolve_value(mixins, Get(merged, key, VStr(<< >>)))
         IN  IF ~r.ok THEN r
             ELSE ComposeLoop(mixins, merged, i + 1,
                              Update(out, (key :> normalize_value(r.v))))

\* A merge in which the tile's defaults are applied after the overrides.
MergeLayersTileLast(globals_defaults, tile_defaults, overrides) ==
    Update(Update(Update(<< >>, globals_defaults), overrides), tile_defaults)

\* merged.update(globals); merged.update(tile.defaults); merged.update(overrides)
MergeLayers(globals_defaults, tile_defaults, overrides) ==
    Update(Update(Update(<< >>, globals_defaults), tile_defaults), overrides)

compose_context(config, tile, overrides) ==
    ComposeLoop(config.mixins,
                MergeLayers(config.globals_defaults, tile.defaults, overrides),
                1, << >>)

---------------------------------------------------------------------------
(* prompts.py: the config loader                                           *)
(*                                                                         *)
(* A document is [exists |-> whether the file is there, data |-> what      *)
(* yaml.safe_load returns].  The maps under globals.mixins are keyed by    *)
(* text; every other map of a document is keyed by a TLA+ string.          *)

\* bool(v)
Truthy(v) ==
    CASE v.t = "none"  -> FALSE
      [] v.t = "str"   -> v.s # << >>
      [] v.t = "int"   -> v.n # 0
      [] v.t = "float" -> v.n # 0 \/ v.f # 0
      [] v.t = "bool"  -> v.b
      [] v.t = "list"  -> v.xs # << >>
      [] v.t = "map"   -> DOMAIN v.m # {}

\* v or {}
OrEmptyMap(v) == IF Truthy(v) THEN v ELSE VMap(<< >>)

\* A decimal numeral of one digit (the numerals of the model's documents).
IsDigit(a) == \E n \in 0..9 : ToString(n) = a
DigitValue(a) == CHOOSE n \in 0..9 : ToString(n) = a

\* int(v): a float is truncated, a bool is 0 or 1, a str is parsed after
\* trimming, None and containers are a TypeError.
PyInt(v) ==
    CASE v.t = "int"   -> Ok(v.n)
      [] v.t = "bool"  -> Ok(IF v.b THEN 1 ELSE 0)
      [] v.t = "float" -> Ok(v.n)
      [] v.t = "str"   ->
            LET s == Strip(v.s)
            IN  IF Len(s) = 1 /\ IsDigit(s[1]) THEN Ok(DigitValue(s[1]))
                ELSE IF Len(s) = 2 /\ s[1] = "-" /\ IsDigit(s[2])
                THEN Ok(0 - DigitValue(s[2]))
                ELSE Raise("ValueError", <<"invalid literal for int()", v.s>>)
      [] OTHER         -> Raise("TypeError", <<"int() argument">>)

\* obj.get(k, default) for what may not be a dict
GetAttr(obj, k, default) ==
    IF obj.t = "map" THEN Ok(Get(obj.m, k, default))
    ELSE Raise("AttributeError", <<"get">>)

RECURSIVE LoadTiles(_, _, _)
\* The inner loop of _load_yaml over tiles_raw.
LoadTiles(tiles_raw, cid, i) ==
    IF i > Len(tiles_raw) THEN Ok(<< >>)
    ELSE LET t == tiles_raw[i]
             tid == Get(t.m, "id", VNone)
         IN  IF ~Truthy(tid)
             THEN Raise("PromptConfigError", <<"Tile missing id in category", cid>>)
             ELSE LET rest == LoadTiles(tiles_raw, cid, i + 1)
                      tile == [id |-> tid,
                               title |-> Get(t.m, "title", tid),
                               defaults |-> OrEmptyMap(Get(t.m, "defaults", VMap(<< >>))).m,
                               category_id |-> cid]
                  IN  IF rest.ok THEN Ok(<<tile>> \o rest.v) ELSE rest

\* x or [] for a list, None or an absent key
OrEmptyList(v) == IF Truthy(v) THEN v.xs ELSE << >>

RECURSIVE LoadCategories(_, _)
\* The outer loop of _load_yaml over categories_raw.
LoadCategories(categories_raw, i) ==
    IF i > Len(categories_raw) THEN Ok(<< >>)
    ELSE LET cat == categories_raw[i]
             cid == Get(cat.m, "id", VNone)
             tiles == LoadTiles(OrEmptyList(Get(cat.m, "tiles", VList(<< >>))), cid, 1)
         IN  IF ~tiles.ok THEN tiles
             ELSE LET rest == LoadCategories(categories_raw, i + 1)
                      c == [id |-> cid, title |-> Get(cat.m, "title", cid),
                            tiles |-> tiles.v]
                  IN  IF rest.ok THEN Ok(<<c>> \o rest.v) ELSE rest

SUPPORTED_VERSION == 2

\* The version check of _load_yaml: int(data.get("version", 0)) != 2
version_check(data) ==
    LET version == PyInt(Get(data.m, "version", VInt(0)))
    IN  IF ~version.ok THEN version
        ELSE IF version.v # SUPPORTED_VERSION
        THEN Raise("PromptConfigError", <<"Unsupported version", version.v>>)
        ELSE version

load_yaml(doc) ==
    IF ~doc.exists THEN Raise("PromptConfigError", <<"YAML not found">>)
    ELSE IF doc.data.t # "map" THEN Raise("AttributeError", <<"get">>)
    ELSE
    LET data == doc.data
        version == version_check(data)
        template == Get(data.m, "template", VStr(<< >>))
        globals == OrEmptyMap(Get(data.m, "globals", VMap(<< >>)))
        gdefaults == GetAttr(globals, "defaults", VMap(<< >>))
        gmixins == GetAttr(globals, "mixins", VMap(<< >>))
        categories == LoadCategories(
                          OrEmptyList(Get(data.m, "categories", VList(<< >>))), 1)
    IN  IF ~version.ok THEN version
        ELSE IF ~Truthy(template) \/ template.t # "str"
        THEN Raise("PromptConfigError", <<"Missing/invalid 'template'">>)
        ELSE IF ~gdefaults.ok THEN gdefaults
        ELSE IF ~categories.ok THEN categories
        ELSE Ok([version |-> version.v,
                 template |-> template.s,
                 globals_defaults |-> OrEmptyMap(gdefaults.v).m,
                 mixins |-> OrEmptyMap(gmixins.v),
                 categories |-> categories.v])

---------------------------------------------------------------------------
(* prompts.py: the tile index                                              *)

\* f"{cat.id}.{tile.id}"
fqid(cat_id, tile_id) == VStr(PyStr(cat_id) \o <<".">> \o PyStr(tile_id))

RECURSIVE FlattenTiles(_)
\* The (category, tile) pairs in the order the two loops visit them.
FlattenTiles(categories) ==
    IF categories = << >> THEN << >>
    ELSE [i \in 1..Len(Head(categories).tiles) |->
              [cat |-> Head(categories).id, tile |-> Head(categories).tiles[i]]]
         \o FlattenTiles(Tail(categories))

RECURSIVE IndexQualified(_, _)
\* The first loop of _index_tiles: a later pair replaces an earlier one
\* under the same key.
IndexQualified(pairs, index) ==
    IF pairs = << >> THEN index
    ELSE IndexQualified(Tail(pairs),
             Update(index, (fqid(Head(pairs).cat, Head(pairs).tile.id)
                                :> Head(pairs).tile)))

\* bare_counts[tile_id] after the first loop
bare_count(pairs, tile_id) ==
    Cardinality({i \in 1..Len(pairs) : pairs[i].tile.id = tile_id})

\* Whether the second loop registers the tile under its bare id.
bare_unique(pairs, tile) == bare_count(pairs, tile.id) = 1

\* _index_tiles: the qualified keys, then the bare id of every indexed tile
\* whose id was counted once.
index_tiles(config) ==
    LET pairs == FlattenTiles(config.categories)
        first == IndexQualified(pairs, << >>)
        uniq == {first[k] : k \in DOMAIN first} 
        bare == {t \in uniq : bare_unique(pairs, t)}
    IN  [k \in DOMAIN first \cup {t.id : t \in bare} |->
            IF \E t \in bare : t.id = k
            THEN CHOOSE t \in bare : t.id = k
            ELSE first[k]]

\* PromptBuilder(yaml_path)
PromptBuilder(doc) ==
    LET config == load_yaml(doc)
    IN  IF ~config.ok THEN config
        ELSE Ok([config |-> config.v, tile_index |-> index_tiles(config.v)])

\* The code points of the characters of the model's ids.
CodePoint(a) ==
    CASE a = "." -> 46 [] a = "a" -> 97 [] a = "b" -> 98 [] a = "c" -> 99
      [] a = "t" -> 116

RECURSIVE TextLess(_, _)
\* s < t for two str (by code point, a proper prefix first)
TextLess(s, t) ==
    IF t = << >> THEN FALSE
    ELSE IF s = << >> THEN TRUE
    ELSE IF Head(s) = Head(t) THEN TextLess(Tail(s), Tail(t))
    ELSE CodePoint(Head(s)) < CodePoint(Head(t))

RECURSIVE Sorted(_)
\* sorted(keys) for str keys
Sorted(keys) ==
    IF keys = {} THEN << >>
    ELSE LET m == CHOOSE m \in keys : \A k \in keys \ {m} : TextLess(m.s, k.s)
         IN  <<m>> \o Sorted(keys \ {m})

list_tiles(pb) == Sorted(DOMAIN pb.tile_index)

resolve_tile(pb, key) ==
    IF key \in DOMAIN pb.tile_index THEN Ok(pb.tile_index[key])
    ELSE Raise("PromptConfigError", <<"Unknown tile", key, list_tiles(pb)>>)

---------------------------------------------------------------------------
(* prompts.py: the public API                                              *)

\* A build that looks the tile up before it looks at overrides["all"].
build_run_lookup_first(pb, tile_key, overrides) ==
    LET tile == resolve_tile(pb, tile_key)
    IN  IF ~tile.ok
        THEN [res |-> tile, stage |-> "lookup", context |-> << >>, emitted |-> << >>]
        ELSE IF Get(overrides, "all", VNone) # VNone
        THEN [res |-> Ok(PyStr(overrides["all"])), stage |-> "all",
              context |-> << >>, emitted |-> << >>]
        ELSE LET context == compose_context(pb.config, tile.v, overrides)
             IN  IF ~context.ok
                 THEN [res |-> context, stage |-> "compose",
                       context |-> << >>, emitted |-> << >>]
                 ELSE LET out == lines_out(pb.config.template, context.v)
                      IN  [res |-> Ok(assemble(out)), stage |-> "render",
                           context |-> context.v, emitted |-> out]

\* PromptBuilder.build, with what it did on the way: the stage it returned
\* or raised from, the context it composed and the lines it emitted.  No
\* overrides is the empty dict.
build_run(pb, tile_key, overrides) ==
    IF Get(overrides, "all", VNone) # VNone
    THEN [res |-> Ok(PyStr(overrides["all"])), stage |-> "all",
          context |-> << >>, emitted |-> << >>]
    ELSE LET tile == resolve_tile(pb, tile_key)
         IN  IF ~tile.ok
             THEN [res |-> tile, stage |-> "lookup",
                   context |-> << >>, emitted |-> << >>]
             ELSE LET context == compose_context(pb.config, tile.v, overrides)
                  IN  IF ~context.ok
                      THEN [res |-> context, stage |-> "compose",
                            context |-> << >>, emitted |-> << >>]
                      ELSE LET out == lines_out(pb.config.template, context.v)
                           IN  [res |-> Ok(assemble(out)), stage |-> "render",
                                context |-> context.v, emitted |-> out]

build(pb, tile_key, overrides) == build_run(pb, tile_key, overrides).res

\* PromptBuilder.dry_run_context
dry_run_context(pb, tile_key, overrides) ==
    LET tile == resolve_tile(pb, tile_key)
    IN  IF ~tile.ok THEN tile
        ELSE compose_context(pb.config, tile.v, overrides)

---------------------------------------------------------------------------
(* The state                                                               *)

VARIABLES
    yaml_files,   \* main.py: the documents found in the prompt directories
    pbs,          \* main.py: the PromptBuilders built so far, one per file
    boot,         \* the startup: [state |-> "loading" | "up" | "crashed", ...]
    last,         \* the call (on a builder, or of a poller) that is returning
    JOBS,         \* pipeline.py: the job registry, job id -> job
    workers       \* the run_job background tasks, job id -> position and locals

vars == <<yaml_files, pbs, boot, last, JOBS, workers>>

NoCall == [op |-> "none"]

SeqsUpTo(S, n) == UNION {[1..k -> S] : k \in 0..n}

---------------------------------------------------------------------------
(* main.py: startup, pbs = [PromptBuilder(f) for f in yaml_files]          *)

\* One PromptBuilder(f) of the list comprehension; an exception ends the
\* process.
LoadFile ==
    /\ boot.state = "loading"
    /\ Len(pbs) < Len(yaml_files)
    /\ LET r == PromptBuilder(yaml_files[Len(pbs) + 1])
       IN  IF r.ok
           THEN /\ pbs' = Append(pbs, r.v)
                /\ UNCHANGED boot
           ELSE /\ boot' = [state |-> "crashed", at |-> Len(pbs) + 1, err |-> r]
                /\ UNCHANGED pbs
    /\ UNCHANGED <<yaml_files, last, JOBS, workers>>

\* if not pbs: raise RuntimeError(...)
FinishStartup ==
    /\ boot.state = "loading"
    /\ Len(pbs) = Len(yaml_files)
    /\ boot' = IF pbs = << >>
               THEN [state |-> "crashed", at |-> 0,
                     err |-> Raise("RuntimeError", <<"No prompt YAML found">>)]
               ELSE [state |-> "up"]
    /\ UNCHANGED <<yaml_files, pbs, last, JOBS, workers>>

\* The builders of a list of documents all of which load.
Startup(files) == [i \in 1..Len(files) |-> PromptBuilder(files[i]).v]

---------------------------------------------------------------------------
(* Calls on a running server's PromptBuilders                              *)

ResolveTile(b, key) ==
    /\ boot.state = "up"
    /\ last = NoCall
    /\ last' = [op |-> "resolve_tile", pb |-> b, key |-> key,
                res |-> resolve_tile(pbs[b], key)]
    /\ UNCHANGED <<yaml_files, pbs, boot, JOBS, workers>>

ListTiles(b) ==
    /\ boot.state = "up"
    /\ last = NoCall
    /\ last' = [op |-> "list_tiles", pb |-> b, res |-> list_tiles(pbs[b])]
    /\ UNCHANGED <<yaml_files, pbs, boot, JOBS, workers>>

\* A build call, recorded with the stage it ended in, the context it
\* composed and the lines it emitted.
Build(b, key, overrides) ==
    /\ boot.state = "up"
    /\ last = NoCall
    /\ last' = [op |-> "build", pb |-> b, key |-> key, overrides |-> overrides,
                res |-> build(pbs[b], key, overrides),
                run |-> build_run(pbs[b], key, overrides)]
    /\ UNCHANGED <<yaml_files, pbs, boot, JOBS, workers>>

DryRunContext(b, key, overrides) ==
    /\ boot.state = "up"
    /\ last = NoCall
    /\ last' = [op |-> "dry_run_context", pb |-> b, key |-> key,
                overrides |-> overrides,
                res |-> dry_run_context(pbs[b], key, overrides)]
    /\ UNCHANGED <<yaml_files, pbs, boot, JOBS, workers>>

\* The call returns to its caller: the result or the exception is handed
\* over and nothing of the call stays in the builder.
Return ==
    /\ last # NoCall
    /\ last' = NoCall
    /\ UNCHANGED <<yaml_files, pbs, boot, JOBS, workers>>

---------------------------------------------------------------------------
(* The documents of the model                                              *)

MaxFiles == 2    \* YAML files found at startup
MaxTiles == 2    \* tiles of one file, over all its categories

DocOf(fields) == [exists |-> TRUE, data |-> VMap(fields)]

TileDoc(tid, defaults) == VMap(("id" :> VStr(tid)) @@ ("defaults" :> VMap(defaults)))

CatDoc(cid, tiles) == VMap(("id" :> VStr(cid)) @@ ("tiles" :> VList(tiles)))

\* Ids for the tile index: category ids and tile ids, some with a dot, so
\* that "a" + "." + "b.b" and "a.b" + "." + "b" are the same key.
CatIds == { <<"a">>, <<"a", ".", "b">> }
TileIds == { <<"b">>, <<"c">>, <<"b", ".", "b">> }

RECURSIVE CatLists(_)
\* The category lists with at most n tiles in all; every category has a
\* tile (one without adds nothing to the index).
CatLists(n) ==
    { << >> } \cup
    UNION { { <<CatDoc(cid, [i \in 1..k |-> TileDoc(tids[i], << >>)])>> \o rest :
                cid \in CatIds, tids \in [1..k -> TileIds],
                rest \in CatLists(n - k) } : k \in 1..n }

IndexDocs ==
    { DocOf(("version" :> VInt(2)) @@ ("template" :> VStr(<<"x">>))
            @@ ("categories" :> VList(cats))) : cats \in CatLists(MaxTiles) }

\* The keys looked up: every bare id and every qualified key of the ids.
ProbeKeys ==
    { VStr(t) : t \in TileIds } \cup
    { fqid(VStr(c), VStr(t)) : c \in CatIds, t \in TileIds }

\* Documents for the loader: what "version" may hold, with and without a
\* template, with and without a tile that lacks its id; a missing file and
\* an empty document.
VersionValues ==
    { VInt(2), VInt(3), VInt(0), VStr(<<"2">>), VStr(<<" ", "2", " ">>),
      VStr(<<"abc">>), VFloat(2, 5), VFloat(2, 0), VFloat(1, 9), VNone,
      VBool(TRUE), VList(<<VInt(2)>>) }

LoadCats ==
    { VList(<<CatDoc(<<"a">>, <<TileDoc(<<"t">>, << >>)>>)>>),
      VList(<<CatDoc(<<"a">>, <<VMap(("title" :> VStr(<<"t">>)))>>)>>) }

LoadFields ==
    { v @@ t @@ ("categories" :> c) :
        v \in { << >> } \cup { ("version" :> x) : x \in VersionValues },
        t \in { << >>, ("template" :> VStr(<<"x">>)) },
        c \in LoadCats }

LoadDocs ==
    { DocOf(f) : f \in LoadFields }
    \cup { [exists |-> FALSE, data |-> VNone], [exists |-> TRUE, data |-> VNone] }

\* Documents for build: two templates, two mixin trees, and global and
\* tile defaults for the placeholders "pose" and "lighting".
TEMPLATE_A ==
    Join(<<"\n">>,
         << << >>,
            <<" ", "photo", ",", " ", "{", "pose", "}", " ", ",", " ", "done", ".", ".">>,
            << >>,
            <<"{", "lighting", "}">>,
            <<" ", " ">>,
            << >>,
            <<"{", "pose", "}", " ", "and", " ", "{", "lighting", "}">>,
            <<"{", "clothing", "}">>,
            <<"{", "mood", "}">>,
            <<" ", "shot", " ", ",", ",", " ", "on", " ", "film", " ", " ">>,
            << >> >>) \o <<"\n">>

TEMPLATE_B ==
    Join(<<"\n">>,
         << <<"{", "pose", "}", ";">>, << >>, << >>, << >>,
            <<" ", " ", "{", "lighting", "}", "\t">> >>) \o <<"\n">>

Templates == { TEMPLATE_A, TEMPLATE_B }

MIXINS ==
    VMap((<<"l">> :> VMap((<<"m">> :> VStr(<<"neon", " ", " ", "glow", " ", ",">>))))
         @@ (<<"k">> :> VList(<<VStr(<<"x">>), VStr(<<" ">>), VInt(7)>>)))

MixinTrees == { MIXINS, VMap(<< >>) }

MixinRef(path) == VStr(MIXIN_PREFIX \o path)

GlobalDefaults ==
    { p @@ l :
        p \in { << >>, ("pose" :> VStr(<<"A">>)),
                ("pose" :> MixinRef(<<"l", ".", "m">>)) },
        l \in { << >>, ("lighting" :> VStr(<<"A">>)) } }

TileDefaults ==
    { p @@ l :
        p \in { << >>, ("pose" :> VStr(<<"B", " ", ",">>)), ("pose" :> VNone) },
        l \in { << >>, ("lighting" :> MixinRef(<<"l", ".", "zz">>)) } }

BuildDocs ==
    { DocOf(("version" :> VInt(2)) @@ ("template" :> VStr(tpl))
            @@ ("globals" :> VMap(("defaults" :> VMap(g)) @@ ("mixins" :> mx)))
            @@ ("categories" :>
                   VList(<<CatDoc(<<"c">>, <<TileDoc(<<"t">>, d)>>)>>))) :
        tpl \in Templates, mx \in MixinTrees, g \in GlobalDefaults,
        d \in TileDefaults }

\* The tile keys of a build call: qualified, bare and unknown.
BuildKeys == { VStr(<<"c", ".", "t">>), VStr(<<"t">>), VStr(<<"zz">>) }

Overrides ==
    { p @@ l @@ a :
        p \in { << >>, ("pose" :> VStr(<<"C">>)),
                ("pose" :> VStr(<<" ", "@", "clear", "\n">>)) },
        l \in { << >>, ("lighting" :> VStr(CLEAR)),
                ("lighting" :> MixinRef(<<"k">>)),
                ("lighting" :> MixinRef(<<"l", ".", "m", ".", "q">>)) },
        a \in { << >>, ("all" :> VNone), ("all" :> VInt(5)), ("all" :> VStr(<< >>)),
                ("all" :> VStr(<<" ", "X", " ", " ", "{", "pose", "}", " ", ",", "\n">>)) } }

---------------------------------------------------------------------------
(* SpecLoad: the startup of main.py over the loader's documents            *)

InitLoad ==
    /\ yaml_files \in SeqsUpTo(LoadDocs, MaxFiles)
    /\ pbs = << >>
    /\ boot = [state |-> "loading"]
    /\ last = NoCall
    /\ JOBS = << >>
    /\ workers = << >>

NextLoad == LoadFile \/ FinishStartup

SpecLoad == InitLoad /\ [][NextLoad]_vars

---------------------------------------------------------------------------
(* SpecIndex: lookups on the builders of a started server                  *)

InitIndex ==
    /\ yaml_files \in SeqsUpTo(IndexDocs, MaxFiles) \ { << >> }
    /\ pbs = Startup(yaml_files)
    /\ boot = [state |-> "up"]
    /\ last = NoCall
    /\ JOBS = << >>
    /\ workers = << >>

NextIndex ==
    \/ \E b \in 1..Len(pbs), key \in ProbeKeys : ResolveTile(b, key)
    \/ \E b \in 1..Len(pbs) : ListTiles(b)
    \/ Return

SpecIndex == InitIndex /\ [][NextIndex]_vars

---------------------------------------------------------------------------
(* Claims on the loader and the tile index                                 *)

\* What a document holds under "version", when it holds a mapping at all.
HasFields(doc) == doc.exists /\ doc.data.t = "map"
VersionOf(doc) == Get(doc.data.m, "version", [t |-> "absent"])

\* C4 (as claimed).  Version gate: a document whose version is absent, not
\* an integer or not 2 is never loaded, and its loading fails with a
\* PromptConfigError and nothing else; a document whose version is the
\* integer 2 never fails the version check.
C4_VersionGate ==
    \A i \in 1..Len(yaml_files) :
        HasFields(yaml_files[i]) =>
            /\ i <= Len(pbs) => VersionOf(yaml_files[i]) = VInt(2)
            /\ (boot.state = "crashed" /\ boot.at = i) =>
                   IF VersionOf(yaml_files[i]) = VInt(2)
                   THEN boot.err.arg[1] # "Unsupported version"
                   ELSE boot.err.exc = "PromptConfigError"

\* The (category, tile) pairs of a builder, and of all builders together.
PairsOf(pb) == FlattenTiles(pb.config.categories)

RECURSIVE PooledPairs(_)
PooledPairs(builders) ==
    IF builders = << >> THEN << >>
    ELSE PairsOf(Head(builders)) \o PooledPairs(Tail(builders))

BareKeys == { VStr(t) : t \in TileIds }

DotFree(id) == \A i \in 1..Len(id.s) : id.s[i] # "."

DotFreeTiles(pairs) == \A i \in 1..Len(pairs) : DotFree(pairs[i].tile.id)

\* C1 (as claimed).  Bare-key uniqueness over the pooled index: a bare key
\* resolves, to the tile that carries it, iff exactly one tile of all the
\* loaded configurations together carries that id; when several categories
\* carry it the bare lookup fails with "unknown tile" and every qualified
\* key resolves to its own tile.
C1_BareKeyPooled ==
    last.op = "resolve_tile" =>
        LET all == PooledPairs(pbs)
        IN  /\ last.key \in BareKeys =>
                /\ (last.res.ok /\ last.res.v.id = last.key)
                       <=> bare_count(all, last.key) = 1
                /\ bare_count(all, last.key) >= 2 =>
                       ~last.res.ok /\ last.res.arg[1] = "Unknown tile"
            /\ \A i \in 1..Len(PairsOf(pbs[last.pb])) :
                   LET p == PairsOf(pbs[last.pb])[i]
                   IN  last.key = fqid(p.cat, p.tile.id) =>
                           /\ last.res.ok
                           /\ last.res.v.id = p.tile.id
                           /\ last.res.v.category_id = p.cat

\* C1, the part that holds.  Bare-key uniqueness per builder: in a builder
\* none of whose tile ids holds a dot, a dot-free bare key resolves iff one
\* (category, tile) pair of that builder's own configuration carries the
\* id, and then to that tile; when two or more carry it the bare lookup
\* fails with "unknown tile", and every qualified key resolves to a tile of
\* that id and category.
C1_BareKeyPerBuilder ==
    (last.op = "resolve_tile" /\ DotFreeTiles(PairsOf(pbs[last.pb]))) =>
        LET own == PairsOf(pbs[last.pb])
        IN  /\ (last.key \in BareKeys /\ DotFree(last.key)) =>
                /\ last.res.ok <=> bare_count(own, last.key) = 1
                /\ last.res.ok => last.res.v.id = last.key
                /\ ~last.res.ok =>
                       /\ last.res.exc = "PromptConfigError"
                       /\ last.res.arg[1] = "Unknown tile"
            /\ \A i \in 1..Len(own) :
                   last.key = fqid(own[i].cat, own[i].tile.id) =>
                       /\ last.res.ok
                       /\ last.res.v.id = own[i].tile.id
                       /\ last.res.v.category_id = own[i].cat

\* Two files are loaded; the first carries the id "b" once and the second
\* twice, and the bare key "b" resolves in the first builder.
C1_Witness ==
    /\ last.op = "resolve_tile"
    /\ Len(pbs) = 2
    /\ last.pb = 1
    /\ last.key = VStr(<<"b">>)
    /\ DotFreeTiles(PairsOf(pbs[1]))
    /\ bare_count(PairsOf(pbs[1]), last.key) = 1
    /\ bare_count(PairsOf(pbs[2]), last.key) = 2
    /\ last.res.ok

\* The qualified keys of a builder's configuration.
QualifiedKeys(pb) ==
    { fqid(PairsOf(pb)[i].cat, PairsOf(pb)[i].tile.id) : i \in 1..Len(PairsOf(pb)) }

\* C3 (as claimed).  list_tiles returns the qualified keys of the
\* configuration, in order, each once, and no bare tile id.
C3_ListTilesQualifiedOnly ==
    last.op = "list_tiles" =>
        /\ { last.res[i] : i \in 1..Len(last.res) } = QualifiedKeys(pbs[last.pb])
        /\ \A i \in 1..(Len(last.res) - 1) :
               TextLess(last.res[i].s, last.res[i + 1].s)

---------------------------------------------------------------------------
(* SpecBuild: build and dry_run_context on the builder of one document     *)

InitBuild ==
    /\ yaml_files \in { <<doc>> : doc \in BuildDocs }
    /\ pbs = Startup(yaml_files)
    /\ boot = [state |-> "up"]
    /\ last = NoCall
    /\ JOBS = << >>
    /\ workers = << >>

NextBuild ==
    \/ \E b \in 1..Len(pbs), key \in BuildKeys, ov \in Overrides :
           Build(b, key, ov)
    \/ \E b \in 1..Len(pbs), key \in BuildKeys, ov \in Overrides :
           DryRunContext(b, key, ov)
    \/ Return

SpecBuild == InitBuild /\ [][NextBuild]_vars

---------------------------------------------------------------------------
(* Claims on build and dry_run_context                                     *)

IsBuild == last.op = "build"
IsDryRun == last.op = "dry_run_context"

\* The non-null value of overrides["all"], if there is one.
HasAll == "all" \in DOMAIN last.overrides /\ last.overrides["all"] # VNone

\* The (category, tile) pair a key names in the configuration of the call.
KeyPairs ==
    LET own == PairsOf(pbs[last.pb])
    IN  { i \in 1..Len(own) :
            \/ last.key = fqid(own[i].cat, own[i].tile.id)
            \/ last.key = own[i].tile.id /\ bare_count(own, last.key) = 1 }

KeyKnown == KeyPairs # {}

TileOfCall == PairsOf(pbs[last.pb])[CHOOSE i \in KeyPairs : TRUE].tile

PH == { PLACEHOLDERS[i] : i \in 1..Len(PLACEHOLDERS) }

\* The raw value of p in the highest layer that has key p.
TopRaw(p) ==
    IF p \in DOMAIN last.overrides THEN last.overrides[p]
    ELSE IF p \in DOMAIN TileOfCall.defaults THEN TileOfCall.defaults[p]
    ELSE IF p \in DOMAIN pbs[last.pb].config.globals_defaults
    THEN pbs[last.pb].config.globals_defaults[p]
    ELSE VStr(<< >>)

\* The call composed a Resolved Context, and that context.
Composed ==
    \/ IsDryRun /\ last.res.ok
    \/ IsBuild /\ last.run.stage = "render"

Context == IF IsDryRun THEN last.res.v ELSE last.run.context

Rendered == IsBuild /\ last.run.stage = "render"

\* C2: build with a non-null overrides["all"] = X returns str(X) as it is,
\* for known and unknown tile keys alike, without a tile lookup, a composed
\* context or a rendered line, whatever else the overrides and the
\* configuration hold.
C2_AllOverride ==
    (IsBuild /\ HasAll) =>
        LET X == last.overrides["all"]
        IN  /\ last.res.ok
            /\ X.t = "str" => last.res.v = X.s
            /\ X.t = "int" => last.res.v = <<ToString(X.n)>>
            /\ last.run.stage = "all"
            /\ last.run.context = << >>
            /\ last.run.emitted = << >>

\* An unknown key, an untrimmed X with a token, a cleared placeholder and a
\* mixin path that does not exist: X comes back verbatim.
C2_Witness ==
    /\ IsBuild /\ HasAll
    /\ last.key = VStr(<<"zz">>) /\ ~KeyKnown
    /\ last.overrides["all"].t = "str" /\ Len(last.overrides["all"].s) > 3
    /\ "pose" \in DOMAIN last.overrides /\ "lighting" \in DOMAIN last.overrides
    /\ last.overrides["lighting"] = MixinRef(<<"l", ".", "m", ".", "q">>)
    /\ last.res = Ok(last.overrides["all"].s)

\* C5: the Resolved Context value of each of the ten placeholders is the
\* resolved and normalized raw value of the highest layer that has the key
\* (overrides, then tile defaults, then global defaults, else ""), and a
\* lower layer's value plays no part once a higher layer has the key: the
\* call composes a context exactly when the top value of every placeholder
\* resolves.
C5_MergePrecedence ==
    ((IsDryRun \/ (IsBuild /\ ~HasAll)) /\ KeyKnown) =>
        LET mixins == pbs[last.pb].config.mixins
            G == pbs[last.pb].config.globals_defaults
            T == TileOfCall.defaults
        IN  /\ Composed <=> \A p \in PH : resolve_value(mixins, TopRaw(p)).ok
            /\ Composed =>
                 \A p \in PH :
                    /\ p \in DOMAIN Context
                    /\ Context[p] =
                          normalize_value(resolve_value(mixins, TopRaw(p)).v)
                    /\ (/\ p \in DOMAIN G /\ G[p] = VStr(<<"A">>)
                        /\ p \in DOMAIN T /\ T[p] = VStr(<<"B", " ", ",">>)) =>
                          /\ p \notin DOMAIN last.overrides => Context[p] = <<"B">>
                          /\ (/\ p \in DOMAIN last.overrides
                              /\ last.overrides[p] = VStr(<<"C">>)) =>
                                 Context[p] = <<"C">>

\* Global "A", tile "B ," and override "C" for pose give "C", while the
\* tile's missing mixin path for lighting is covered by an override.
C5_Witness ==
    /\ IsDryRun /\ KeyKnown /\ last.res.ok
    /\ Get(pbs[last.pb].config.globals_defaults, "pose", VNone) = VStr(<<"A">>)
    /\ Get(TileOfCall.defaults, "pose", VNone) = VStr(<<"B", " ", ",">>)
    /\ Get(last.overrides, "pose", VNone) = VStr(<<"C">>)
    /\ last.res.v["pose"] = <<"C">>
    /\ Get(TileOfCall.defaults, "lighting", VNone) = MixinRef(<<"l", ".", "zz">>)
    /\ "lighting" \in DOMAIN last.overrides

\* The override of p is the clear sentinel, with or without whitespace
\* around it.
Cleared(p) ==
    /\ p \in DOMAIN last.overrides
    /\ last.overrides[p].t = "str"
    /\ Strip(last.overrides[p].s) = CLEAR

NonEmptyIn(layer, p) ==
    p \in DOMAIN layer /\ layer[p] \notin { VNone, VStr(<< >>) }

HasDefault(p) ==
    \/ NonEmptyIn(pbs[last.pb].config.globals_defaults, p)
    \/ NonEmptyIn(TileOfCall.defaults, p)

TemplateLines == splitlines(pbs[last.pb].config.template)

\* The placeholder names the template line i refers to.
NamesOn(i) ==
    LET names == FindAll(RStrip(TemplateLines[i]))
    IN  { names[k] : k \in 1..Len(names) }

ResultLines == SplitOn(last.res.v, "\n")

\* C6: where a placeholder p with a non-empty global or tile default is
\* overridden by "@clear" (whitespace around it allowed), the Resolved
\* Context holds "" for p, and the prompt build returns holds no template
\* line that refers to {p}: none is emitted and no token {p} is left.
C6_ClearSentinel ==
    ((IsDryRun \/ IsBuild) /\ KeyKnown) =>
        \A p \in PH :
            (Cleared(p) /\ HasDefault(p)) =>
                /\ Composed => Context[p] = << >>
                /\ Rendered =>
                     /\ \A k \in 1..Len(last.run.emitted) :
                            p \notin NamesOn(last.run.emitted[k].src)
                     /\ \A k \in 1..Len(ResultLines) :
                            \A n \in 1..Len(FindAll(ResultLines[k])) :
                                FindAll(ResultLines[k])[n] # p

\* pose has the global default "A" and the override " @clear\n"; the
\* template has lines with {pose}; the prompt still has other lines.
C6_Witness ==
    /\ Rendered /\ KeyKnown
    /\ Cleared("pose") /\ last.overrides["pose"].s # CLEAR
    /\ NonEmptyIn(pbs[last.pb].config.globals_defaults, "pose")
    /\ \E i \in 1..Len(TemplateLines) : "pose" \in NamesOn(i)
    /\ last.run.context["pose"] = << >>
    /\ last.res.v # << >>

\* The value the renderer sees for a name: absent counts as empty.
ValueOf(n) == IF n \in DOMAIN last.run.context THEN last.run.context[n] ELSE << >>

\* The numbers of the emitted entries that came from template line i.
EmittedFrom(i) ==
    { k \in 1..Len(last.run.emitted) : last.run.emitted[k].src = i }

NonBlankStripped(ls) ==
    LET nb == SelectSeq2(ls, [k \in 1..Len(ls) |-> Strip(ls[k]) # << >>])
    IN  [k \in 1..Len(nb) |-> Strip(nb[k])]

\* C7: in a render, a non-blank template line with at least one token is
\* emitted if and only if every name it refers to has a non-empty value in
\* the context (an absent name is empty); a non-blank line without a token
\* is emitted as it stands after the right-trim, with no substitution or
\* clean-up; and the non-blank lines of the prompt are the emitted ones, in
\* order.
C7_LineDrop ==
    Rendered =>
        /\ \A i \in 1..Len(TemplateLines) :
              LET line == RStrip(TemplateLines[i])
              IN  Strip(line) # << >> =>
                     IF NamesOn(i) # {}
                     THEN /\ EmittedFrom(i) # {} <=>
                                \A n \in NamesOn(i) : ValueOf(n) # << >>
                          /\ Cardinality(EmittedFrom(i)) <= 1
                     ELSE \E k \in EmittedFrom(i) :
                              /\ last.run.emitted[k].text = line
                              /\ EmittedFrom(i) = {k}
        /\ NonBlankStripped(ResultLines) =
              NonBlankStripped([k \in 1..Len(last.run.emitted) |->
                                   last.run.emitted[k].text])

\* pose is set and lighting is empty: the line with {pose} alone is
\* emitted, the line with both is dropped, the constant line is kept.
C7_Witness ==
    /\ Rendered
    /\ pbs[last.pb].config.template = TEMPLATE_A
    /\ ValueOf("pose") # << >> /\ ValueOf("lighting") = << >>
    /\ EmittedFrom(2) # {} /\ EmittedFrom(7) = {} /\ EmittedFrom(9) = {}
    /\ NamesOn(7) = {"pose", "lighting"} /\ NamesOn(9) = {"mood"}
    /\ \E k \in EmittedFrom(10) :
          last.run.emitted[k].text = <<" ", "shot", " ", ",", ",", " ", "on", " ", "film">>

\* The merged raw value of p is a string that starts with "@mixin.".
IsMixinRef(v) == v.t = "str" /\ StartsWith(v.s, MIXIN_PREFIX)

MixinPath(v) == ReplaceFirst(Strip(v.s), MIXIN_PREFIX, << >>)

RECURSIVE PathExists(_, _)
\* Every segment is a key of the mapping the segments before it lead to.
PathExists(node, parts) ==
    \/ parts = << >>
    \/ /\ node.t = "map"
       /\ Head(parts) \in DOMAIN node.m
       /\ PathExists(node.m[Head(parts)], Tail(parts))

BadMixin(p) ==
    /\ IsMixinRef(TopRaw(p))
    /\ ~PathExists(pbs[last.pb].config.mixins, SplitOn(MixinPath(TopRaw(p)), "."))

MixinErrorNaming(path) ==
    /\ ~last.res.ok
    /\ last.res.exc = "PromptConfigError"
    /\ last.res.arg = <<"Mixin not found", path>>

\* C8 as stated: whenever the merged raw value of a placeholder is a
\* "@mixin." string whose path does not exist, build and dry_run_context
\* fail with a mixin error that names the path; and they do not fail where
\* every path exists.
C8_MixinError ==
    ((IsDryRun \/ IsBuild) /\ KeyKnown) =>
        /\ (\E p \in PH : BadMixin(p)) =>
              \E p \in PH : BadMixin(p) /\ MixinErrorNaming(MixinPath(TopRaw(p)))
        /\ (\A p \in PH : ~BadMixin(p)) => last.res.ok

\* C8, amended: the same for dry_run_context and for build without a
\* non-null overrides["all"]; build with a non-null overrides["all"]
\* returns that value and raises nothing, whatever the merged values are.
C8_MixinErrorUnlessAll ==
    ((IsDryRun \/ IsBuild) /\ KeyKnown) =>
        IF IsBuild /\ HasAll
        THEN last.res.ok /\ last.run.stage = "all"
        ELSE /\ (\E p \in PH : BadMixin(p)) =>
                   \E p \in PH : BadMixin(p) /\ MixinErrorNaming(MixinPath(TopRaw(p)))
             /\ (\A p \in PH : ~BadMixin(p)) => last.res.ok

\* The tile's default for lighting is "@mixin.l.zz", no layer above has
\* lighting, and build fails naming l.zz although l exists.
C8_Witness ==
    /\ IsBuild /\ KeyKnown /\ ~HasAll
    /\ pbs[last.pb].config.mixins = MIXINS
    /\ BadMixin("lighting") /\ ~BadMixin("pose")
    /\ TopRaw("lighting") = MixinRef(<<"l", ".", "zz">>)
    /\ MixinErrorNaming(<<"l", ".", "zz">>)
    /\ last.run.stage = "compose"

\* C9: the text a render returns neither starts nor ends with a blank
\* line, has no three consecutive line breaks, and so has at most one
\* blank line between two lines.
C9_FinalAssembly ==
    Rendered =>
        LET text == last.res.v
            ls == ResultLines
        IN  /\ text # << >> =>
                 /\ Strip(ls[1]) # << >>
                 /\ Strip(ls[Len(ls)]) # << >>
                 /\ text[1] \notin WS /\ text[Len(text)] \notin WS
            /\ \A i \in 1..(Len(text) - 2) :
                   ~(text[i] = "\n" /\ text[i + 1] = "\n" /\ text[i + 2] = "\n")
            /\ \A i \in 1..(Len(ls) - 1) :
                   ~(Strip(ls[i]) = << >> /\ Strip(ls[i + 1]) = << >>)

\* Three blank lines are emitted in a row, around a dropped line, between
\* two lines of text; the prompt has one blank line there.
C9_Witness ==
    /\ Rendered
    /\ \E k \in 2..(Len(last.run.emitted) - 3) :
          /\ \A j \in k..(k + 2) : last.run.emitted[j].text = << >>
          /\ last.run.emitted[k + 2].src - last.run.emitted[k].src > 2
          /\ last.run.emitted[k - 1].text # << >>
          /\ last.run.emitted[k + 3].text # << >>
    /\ Len(ResultLines) = 3 /\ ResultLines[2] = << >>

---------------------------------------------------------------------------
(* pipeline.py, replicate_client.py, main.py: the generation jobs           *)
(*                                                                         *)
(* A job id is the job's number in the registry (uuid4 is taken to give a   *)
(* fresh id).  run_job is a background task: each of its statements that    *)
(* writes the job record, and each call that can raise, is a step of its    *)
(* own; workers[id].pc is the step the task of job id is at.                *)

MaxJobs == 2    \* jobs created in one run

\* GenerateRequest.model
ModelKeys == { "kontext-dev", "kontext-pro", "prunaai-kontext-dev" }

\* The payloads api_generate passes on: pydantic has validated the model key.
Payloads == { [model |-> m, reference_path |-> "runs/refs/ref.png"] : m \in ModelKeys }

model_ref_for_key(model_key) ==
    IF model_key \notin ModelKeys
    THEN Raise("ValueError", <<"Unknown model key", model_key>>)
    ELSE Ok(CASE model_key = "kontext-dev" -> "black-forest-labs/flux-kontext-dev"
              [] model_key = "kontext-pro" -> "black-forest-labs/flux-kontext-pro"
              [] model_key = "prunaai-kontext-dev" -> "prunaai/flux-kontext-dev")

\* The job record create_job stores.
create_job(job_id, payload) ==
    [id |-> job_id, status |-> "queued", payload |-> payload,
     output_path |-> "None", error |-> "None"]

\* The path run_job writes the image of a job to.
OutPath(job_id) == "runs/outputs/" \o ToString(job_id) \o "/gen.png"

\* What the calls of run_job can raise.
OpenErrors == { "FileNotFoundError", "PermissionError" }
GenerateErrors == { "Missing REPLICATE_API_TOKEN", "Model returned an empty list",
                    "HTTPError" }
WriteErrors == { "OSError" }

\* api_generate: create_job, then bg.add_task(run_job, job_id).
ApiGenerate(payload) ==
    /\ boot.state = "up"
    /\ Len(JOBS) < MaxJobs
    /\ LET job_id == Len(JOBS) + 1
       IN  /\ JOBS' = Append(JOBS, create_job(job_id, payload))
           /\ workers' = Append(workers, [pc |-> "start", exc |-> "None"])
    /\ UNCHANGED <<yaml_files, pbs, boot, last>>

Step(job_id, pc, exc) == workers' = [workers EXCEPT ![job_id] = [pc |-> pc, exc |-> exc]]

\* run_job, line 34: job["status"] = "running"
RunStart(job_id) ==
    /\ workers[job_id].pc = "start"
    /\ JOBS' = [JOBS EXCEPT ![job_id].status = "running"]
    /\ Step(job_id, "prepare", "None")
    /\ UNCHANGED <<yaml_files, pbs, boot, last>>

\* run_job, lines 35-65, before the try: the model key is mapped and the
\* reference file is opened; what either raises leaves run_job.
RunPrepare(job_id) ==
    /\ workers[job_id].pc = "prepare"
    /\ LET model_ref == model_ref_for_key(JOBS[job_id].payload.model)
       IN  IF ~model_ref.ok
           THEN Step(job_id, "escaped", model_ref.exc)
           ELSE \/ Step(job_id, "generate", "None")
                \/ \E e \in OpenErrors : Step(job_id, "escaped", e)
    /\ UNCHANGED <<yaml_files, pbs, boot, last, JOBS>>

\* run_job, line 68: replicate_generate(model_ref, inputs)
RunGenerate(job_id) ==
    /\ workers[job_id].pc = "generate"
    /\ \/ Step(job_id, "write", "None")
       \/ \E e \in GenerateErrors : Step(job_id, "except", e)
    /\ UNCHANGED <<yaml_files, pbs, boot, last, JOBS>>

\* run_job, lines 69-72: the output directory and the image file
RunWriteOutput(job_id) ==
    /\ workers[job_id].pc = "write"
    /\ \/ Step(job_id, "set_output_path", "None")
       \/ \E e \in WriteErrors : Step(job_id, "except", e)
    /\ UNCHANGED <<yaml_files, pbs, boot, last, JOBS>>

\* run_job, line 74: job["output_path"] = str(out_path)
RunSetOutputPath(job_id) ==
    /\ workers[job_id].pc = "set_output_path"
    /\ JOBS' = [JOBS EXCEPT ![job_id].output_path = OutPath(job_id)]
    /\ Step(job_id, "set_succeeded", "None")
    /\ UNCHANGED <<yaml_files, pbs, boot, last>>

\* run_job, line 75: job["status"] = "succeeded"
RunSetSucceeded(job_id) ==
    /\ workers[job_id].pc = "set_succeeded"
    /\ JOBS' = [JOBS EXCEPT ![job_id].status = "succeeded"]
    /\ Step(job_id, "log", "None")
    /\ UNCHANGED <<yaml_files, pbs, boot, last>>

\* run_job, lines 77-86: the line appended to runs.jsonl
RunWriteLog(job_id) ==
    /\ workers[job_id].pc = "log"
    /\ \/ Step(job_id, "done", "None")
       \/ \E e \in WriteErrors : Step(job_id, "except", e)
    /\ UNCHANGED <<yaml_files, pbs, boot, last, JOBS>>

\* run_job, line 88: job["status"] = "failed"
RunSetFailed(job_id) ==
    /\ workers[job_id].pc = "except"
    /\ JOBS' = [JOBS EXCEPT ![job_id].status = "failed"]
    /\ Step(job_id, "set_error", workers[job_id].exc)
    /\ UNCHANGED <<yaml_files, pbs, boot, last>>

\* run_job, lines 89-90: job["error"] = str(e), and the task returns
RunSetError(job_id) ==
    /\ workers[job_id].pc = "set_error"
    /\ JOBS' = [JOBS EXCEPT ![job_id].error = workers[job_id].exc]
    /\ Step(job_id, "done", workers[job_id].exc)
    /\ UNCHANGED <<yaml_files, pbs, boot, last>>

\* The job ids a poller asks for: those of the registry and one more.
PollIds == 1..(MaxJobs + 1)

\* api_job: JOBS.get(job_id), 404 if there is none, else the job record.
ApiJob(job_id) ==
    /\ boot.state = "up"
    /\ last = NoCall
    /\ last' = IF job_id \notin DOMAIN JOBS
               THEN [op |-> "api_job", job_id |-> job_id, code |-> 404]
               ELSE [op |-> "api_job", job_id |-> job_id, code |-> 200,
                     job |-> JOBS[job_id]]
    /\ UNCHANGED <<yaml_files, pbs, boot, JOBS, workers>>

\* api_download: 404 if there is no job or the job has no output_path,
\* else the file at output_path; the status plays no part.
ApiDownload(job_id) ==
    /\ boot.state = "up"
    /\ last = NoCall
    /\ last' = IF job_id \notin DOMAIN JOBS \/ JOBS[job_id].output_path = "None"
               THEN [op |-> "api_download", job_id |-> job_id, code |-> 404]
               ELSE [op |-> "api_download", job_id |-> job_id, code |-> 200,
                     job |-> JOBS[job_id],
                     path |-> JOBS[job_id].output_path]
    /\ UNCHANGED <<yaml_files, pbs, boot, JOBS, workers>>

\* The configuration the server of the job runs is started on.
JobsDoc ==
    DocOf(("version" :> VInt(2)) @@ ("template" :> VStr(TEMPLATE_B))
          @@ ("categories" :> VList(<<CatDoc(<<"c">>, <<TileDoc(<<"t">>, << >>)>>)>>)))

InitJobs ==
    /\ yaml_files = <<JobsDoc>>
    /\ pbs = Startup(yaml_files)
    /\ boot = [state |-> "up"]
    /\ last = NoCall
    /\ JOBS = << >>
    /\ workers = << >>

NextJobs ==
    \/ \E payload \in Payloads : ApiGenerate(payload)
    \/ \E job_id \in 1..Len(JOBS) : RunStart(job_id)
    \/ \E job_id \in 1..Len(JOBS) : RunPrepare(job_id)
    \/ \E job_id \in 1..Len(JOBS) : RunGenerate(job_id)
    \/ \E job_id \in 1..Len(JOBS) : RunWriteOutput(job_id)
    \/ \E job_id \in 1..Len(JOBS) : RunSetOutputPath(job_id)
    \/ \E job_id \in 1..Len(JOBS) : RunSetSucceeded(job_id)
    \/ \E job_id \in 1..Len(JOBS) : RunWriteLog(job_id)
    \/ \E job_id \in 1..Len(JOBS) : RunSetFailed(job_id)
    \/ \E job_id \in 1..Len(JOBS) : RunSetError(job_id)
    \/ \E job_id \in PollIds : ApiJob(job_id)
    \/ \E job_id \in PollIds : ApiDownload(job_id)
    \/ Return

SpecJobs == InitJobs /\ [][NextJobs]_vars

\* run_job has ended: it returned, or an exception left it.
Ended(job_id) == workers[job_id].pc \in {"done", "escaped"}

\* C10: no execution of run_job ends, by a return or by an exception that
\* leaves it, with the job in a status other than "succeeded" or "failed".
C10_JobTermination ==
    \A job_id \in 1..Len(JOBS) :
        Ended(job_id) => JOBS[job_id].status \in {"succeeded", "failed"}

\* What a poller has just been given: the job record api_job returns, or
\* the record api_download serves the file of.
Observed == last.op \in {"api_job", "api_download"} /\ last.code = 200

\* C11: a job record a poller is given has an output_path only with the
\* status "succeeded" and no error, api_download serves a file only of a
\* job that has succeeded, and the same holds of every record of the
\* registry, which a poller can read at any moment.
C11_JobRecordConsistency ==
    /\ Observed =>
          (last.job.output_path # "None" =>
              last.job.status = "succeeded" /\ last.job.error = "None")
    /\ \A job_id \in 1..Len(JOBS) :
          JOBS[job_id].output_path # "None" =>
              JOBS[job_id].status = "succeeded" /\ JOBS[job_id].error = "None"

=============================================================================
